---- MODULE Spec2Model ----
(***************************************************************************)
(* The request pipeline of the Deel MCP server (src/src/client.ts): the    *)
(* sliding-window RateLimiter, the TTL cache and deelRequest with its      *)
(* retry loop.  JavaScript runs one task at a time, so every action below  *)
(* is the code between two suspension points (await of a timer or of a     *)
(* fetch).  Time is the value of Date.now() in milliseconds.               *)
(***************************************************************************)
EXTENDS Integers, Sequences, FiniteSets, TLC

(* ------------------------------------------------------------------ *)
(* Program constants                                                    *)
(* ------------------------------------------------------------------ *)
maxRequests == 5
windowMs == 1000
SlotMargin == 10
CACHE_TTL_MS == 86400000
MaxAttempts == 3
ServerBackoffMs == 1000
RateBackoffMs == 2000
CatchBackoffMs == 1000
\* const limit = 100 in fetchAllPeople
PeopleLimit == 100

(* ------------------------------------------------------------------ *)
(* Bounds of the model                                                  *)
(* ------------------------------------------------------------------ *)
\* deelRequest calls that may be in flight together
NumCalls == 2
\* direct callers of waitForSlot in SpecLimiter
MaxSlotCalls == 11
\* advances of the clock while deelRequest calls run together
MaxTicks == 2
\* advances of the clock during one deelRequest call
MaxRetryTicks == 4
\* advances of the clock among the direct callers of waitForSlot
MaxSlotTicks == 3
\* entries of a params mapping in SpecUrl
MaxParams == 2
\* reports in one answer to the reports request of deel_get_payroll_calendar
MaxReports == 2
\* rows fetchAllTimeOff may have collected when it makes a request
MaxTimeOffRows == 3
\* size of the upstream /people collection
MaxPeople == 250
\* active people given to deel_get_org_chart
MaxOrg == 3

Procs == 1..NumCalls

VARIABLES
    now,          \* Date.now()
    ticks,        \* number of clock advances so far
    timestamps,   \* RateLimiter.timestamps
    suspended,    \* direct waitForSlot callers asleep in the timer: their wake times
    issued,       \* number of direct waitForSlot calls made
    grants,       \* times at which waitForSlot returned, within the trailing window
    starts,       \* times at which fetch was called, within the trailing window
    cache,        \* the cache Map: key -> [data, expiresAt]
    stored,       \* per key: how many times cacheSet wrote it and when last
    pc,           \* per call: idle, slot, fetch, sleep, done, failed
    url,          \* per call: cacheKey = url.toString()
    attempt,      \* per call: the loop variable
    lastError,    \* per call: lastError (NoError is null)
    wakeAt,       \* per call: when its pending timer is due
    returned,     \* per call: the value returned
    thrown,       \* per call: the Error thrown
    outs,         \* per call: what its fetch attempts settled with, in order
    sleeps,       \* per call: the backoff delays it slept, in order
    nFetch,       \* per call: number of fetch calls
    nStore,       \* per call: number of cacheSet calls
    began,        \* per call: the clock and the cache entry's version at its start,
                  \* and the defined entries of its params
    src,          \* per call: version and store time of the entry its result is
    uParams,      \* SpecUrl: the params mapping
    uHref,        \* SpecUrl: the resolved URL, <<>> before it is built
    hTool,        \* per call: the call site in a tool handler that makes it, if any
    hResult,      \* per call: the ToolResult of the handler that made it, once returned
    lPc,          \* a paginating loop: off, call, slot, fetch, end
    lPos,         \* the loop's cursor (fetchAllTimeOff) or offset (fetchAllPeople)
    lAll,         \* the loop's accumulator: all
    lSeen,        \* the positions the loop has requested
    lAgain,       \* whether the loop has requested a position a second time
    lWake,        \* when the timer of the loop's waitForSlot is due
    lColl,        \* the upstream /people collection: its size, and whether its
                  \* pages carry page.total_rows
    oManager,     \* deel_get_org_chart: per active person, the id of direct_manager
    oOut          \* deel_get_org_chart: what was rendered, once it was

limiterVars == <<timestamps, suspended, issued, grants>>
callVars == <<pc, url, attempt, lastError, wakeAt, returned, thrown, outs, sleeps,
              nFetch, nStore, began, src>>
urlVars == <<uParams, uHref>>
toolVars == <<hTool, hResult>>
loopVars == <<lPc, lPos, lAll, lSeen, lAgain, lWake, lColl>>
orgVars == <<oManager, oOut>>
extVars == <<loopVars, orgVars>>
vars == <<now, ticks, limiterVars, starts, cache, stored, callVars, urlVars, toolVars,
          extVars>>

(* ------------------------------------------------------------------ *)
(* Small helpers                                                        *)
(* ------------------------------------------------------------------ *)
RECURSIVE Flatten(_)
Flatten(ss) == IF ss = <<>> THEN <<>> ELSE Head(ss) \o Flatten(Tail(ss))

Range(s) == {s[i] : i \in DOMAIN s}

\* the entries of a log that lie in the trailing window of t
Trailing(log, t) == SelectSeq(log, LAMBDA x : t - x < windowMs)

(* ------------------------------------------------------------------ *)
(* RateLimiter.waitForSlot                                              *)
(* ------------------------------------------------------------------ *)
\* a faulty filter that keeps a timestamp that is exactly windowMs old
PruneKeepsBoundary(ts, t) == SelectSeq(ts, LAMBDA x : t - x <= windowMs)

\* this.timestamps.filter((t) => now - t < this.windowMs)
Prune(ts, t) == SelectSeq(ts, LAMBDA x : t - x < windowMs)

\* this.timestamps.length >= this.maxRequests
WindowFull(ts) == Len(ts) >= maxRequests

\* a faulty wait that grows with the age of the oldest timestamp
WaitTimeGrows(ts, t) == windowMs + (t - ts[1]) + SlotMargin

\* this.windowMs - (now - oldest) + 10, with oldest = this.timestamps[0]
WaitTime(ts, t) == windowMs - (t - ts[1]) + SlotMargin

\* a faulty waitForSlot that records its timestamp twice
PushTwice(ts, t) == Append(Append(ts, t), t)

\* a faulty waitForSlot that returns without recording its timestamp
PushNothing(ts, t) == ts

\* a faulty waitForSlot that records its timestamp at the front of the list
PushFront(ts, t) == <<t>> \o ts

\* this.timestamps.push(Date.now())
Push(ts, t) == Append(ts, t)

(* ------------------------------------------------------------------ *)
(* URL construction: new URL, searchParams.set, toString                *)
(* Strings that are built or encoded are sequences of characters.       *)
(* ------------------------------------------------------------------ *)
BASE_URL == "https://api.letsdeel.com/rest/v2"

\* values of Record<string, string | number | undefined>
Undefined == [t |-> "undefined", n |-> 0, s |-> <<>>]
Num(n) == [t |-> "number", n |-> n, s |-> <<>>]
Str(s) == [t |-> "string", n |-> 0, s |-> s]

Digit(d) ==
    CASE d = 0 -> "0" [] d = 1 -> "1" [] d = 2 -> "2" [] d = 3 -> "3" [] d = 4 -> "4"
      [] d = 5 -> "5" [] d = 6 -> "6" [] d = 7 -> "7" [] d = 8 -> "8" [] d = 9 -> "9"

RECURSIVE Decimal(_)
Decimal(n) == IF n < 10 THEN <<Digit(n)>> ELSE Decimal(n \div 10) \o <<Digit(n % 10)>>

\* String(value) of a non-negative integer, a string or undefined
String(v) ==
    CASE v.t = "number" -> Decimal(v.n)
      [] v.t = "string" -> v.s
      [] OTHER -> <<"u", "n", "d", "e", "f", "i", "n", "e", "d">>

\* the characters the application/x-www-form-urlencoded serializer leaves alone
Unreserved ==
    {"a", "b", "c", "d", "e", "f", "i", "l", "m", "n", "o", "p", "r", "s", "t", "u",
     "x", "y", "0", "1", "2", "3", "4", "5", "6", "7", "8", "9", "*", "-", ".", "_"}

\* the two hexadecimal digits of a character's code
HexOf(c) ==
    CASE c = "&" -> <<"2", "6">> [] c = "=" -> <<"3", "D">> [] c = "%" -> <<"2", "5">>
      [] c = "+" -> <<"2", "B">> [] c = "[" -> <<"5", "B">> [] c = "]" -> <<"5", "D">>
      [] c = "?" -> <<"3", "F">> [] c = "#" -> <<"2", "3">>

\* one character, as the serializer writes it
EncodeChar(c) ==
    IF c \in Unreserved THEN <<c>>
    ELSE IF c = " " THEN <<"+">>
    ELSE <<"%">> \o HexOf(c)

Encode(str) == Flatten([i \in DOMAIN str |-> EncodeChar(str[i])])

\* url.searchParams.set(name, value) on the list of name-value pairs
SearchParamsSet(q, name, value) ==
    IF \E i \in DOMAIN q : q[i][1] = name
    THEN LET first == CHOOSE i \in DOMAIN q :
                          /\ q[i][1] = name
                          /\ \A j \in DOMAIN q : q[j][1] = name => i <= j
             keep == SelectSeq([i \in DOMAIN q |-> <<i, q[i]>>],
                               LAMBDA e : e[2][1] # name \/ e[1] = first)
         IN [i \in DOMAIN keep |->
                IF keep[i][1] = first THEN <<name, value>> ELSE keep[i][2]]
    ELSE Append(q, <<name, value>>)

\* a faulty loop that sets every entry, undefined values included
RECURSIVE SetAll(_, _)
SetAll(q, entries) ==
    IF entries = <<>> THEN q
    ELSE SetAll(SearchParamsSet(q, Head(entries).key, String(Head(entries).value)),
                Tail(entries))

\* the loop over Object.entries(params): entries with a defined value are set
RECURSIVE SetDefined(_, _)
SetDefined(q, entries) ==
    IF entries = <<>> THEN q
    ELSE LET e == Head(entries)
         IN SetDefined(IF e.value # Undefined
                       THEN SearchParamsSet(q, e.key, String(e.value))
                       ELSE q,
                       Tail(entries))

\* the serialized query: name=value pairs joined by &
RECURSIVE Serialize(_)
Serialize(q) ==
    IF q = <<>> THEN <<>>
    ELSE Encode(Head(q)[1]) \o <<"=">> \o Encode(Head(q)[2])
         \o (IF Tail(q) = <<>> THEN <<>> ELSE <<"&">> \o Serialize(Tail(q)))

\* url.toString(): the origin and path (one token) and, if any, ? and the query
UrlToString(prefix, q) ==
    IF q = <<>> THEN <<prefix>> ELSE <<prefix, "?">> \o Serialize(q)

\* a faulty cache key that leaves the query out
HrefWithoutQuery(path, params) == UrlToString(BASE_URL \o path, <<>>)

\* const url = new URL(`${BASE_URL}${path}`); ...; const cacheKey = url.toString()
Href(path, params) == UrlToString(BASE_URL \o path, SetDefined(<<>>, params))

(* ------------------------------------------------------------------ *)
(* The TTL cache                                                        *)
(* ------------------------------------------------------------------ *)
\* undefined, and a parsed envelope { data: [...] } (its data array, as numbers)
NoValue == [defined |-> FALSE, data |-> <<>>]
Envelope(d) == [defined |-> TRUE, data |-> d]
Payloads == {Envelope(<<1>>), Envelope(<<2>>)}

\* a faulty cacheGet that treats an entry as expired at its expiry instant
CacheGetExpiresEarly(c, key, t) ==
    IF key \notin DOMAIN c THEN NoValue
    ELSE IF t >= c[key].expiresAt THEN NoValue
    ELSE c[key].data

\* a faulty cacheGet that serves an entry whatever its age
CacheGetServesStale(c, key, t) ==
    IF key \notin DOMAIN c THEN NoValue ELSE c[key].data

\* cacheGet: the value it returns
CacheGet(c, key, t) ==
    IF key \notin DOMAIN c THEN NoValue
    ELSE IF t > c[key].expiresAt THEN NoValue
    ELSE c[key].data

\* a faulty cacheGet that deletes the entry it reads
CacheAfterGetConsumes(c, key, t) == [k \in DOMAIN c \ {key} |-> c[k]]

\* cacheGet: the Map it leaves (an expired entry is deleted)
CacheAfterGet(c, key, t) ==
    IF key \in DOMAIN c /\ t > c[key].expiresAt
    THEN [k \in DOMAIN c \ {key} |-> c[k]]
    ELSE c

\* a faulty cacheSet whose entries expire one millisecond early
CacheSetShortTtl(c, key, data, t) ==
    [k \in DOMAIN c \cup {key} |->
        IF k = key THEN [data |-> data, expiresAt |-> t + CACHE_TTL_MS - 1] ELSE c[k]]

\* cacheSet
CacheSet(c, key, data, t) ==
    [k \in DOMAIN c \cup {key} |->
        IF k = key THEN [data |-> data, expiresAt |-> t + CACHE_TTL_MS] ELSE c[k]]

\* bookkeeping of cacheSet calls: how many wrote the key, and when the last did
NeverStored == [ver |-> 0, at |-> 0]
StoredOf(st, key) == IF key \in DOMAIN st THEN st[key] ELSE NeverStored
StoredAfterSet(st, key, t) ==
    [k \in DOMAIN st \cup {key} |->
        IF k = key THEN [ver |-> StoredOf(st, key).ver + 1, at |-> t] ELSE st[k]]

(* ------------------------------------------------------------------ *)
(* Upstream responses                                                   *)
(* ------------------------------------------------------------------ *)
Absent == ""
NoHeader == [present |-> FALSE, text |-> <<>>]
Header(text) == [present |-> TRUE, text |-> text]
NoBody == [json |-> "invalid", message |-> Absent, errors |-> Absent, text |-> ""]
\* a body that is a JSON object, with its message and stringified errors fields
JsonBody(message, errors) ==
    [json |-> "object", message |-> message, errors |-> errors, text |-> "{...}"]
\* a body that is the JSON text null
NullBody == [json |-> "null", message |-> Absent, errors |-> Absent, text |-> "null"]
\* a body that is not JSON
TextBody(text) == [json |-> "invalid", message |-> Absent, errors |-> Absent, text |-> text]

\* fetch rejects: DNS, timeout, connection reset
Reject == [kind |-> "reject", status |-> 0, retryAfter |-> NoHeader, body |-> NoBody,
           data |-> NoValue]
\* fetch resolves with a response
Http(status, retryAfter, body, data) ==
    [kind |-> "http", status |-> status, retryAfter |-> retryAfter, body |-> body,
     data |-> data]

ClientStatuses == {304, 400, 403, 404}
ServerStatuses == {500, 503}
ErrorBodies ==
    {JsonBody("insufficient scope", Absent), JsonBody("invalid", "[bad id]"),
     JsonBody(Absent, Absent), NullBody, TextBody("Forbidden"), TextBody("")}
RetryAfters == {NoHeader, Header(<<>>), Header(<<"0">>), Header(<<"1">>)}

Responses ==
    {Reject}
    \cup {Http(200, NoHeader, JsonBody(Absent, Absent), d) : d \in Payloads}
    \cup {Http(200, NoHeader, TextBody("<html>"), NoValue)}
    \cup {Http(429, h, NoBody, NoValue) : h \in RetryAfters}
    \cup {Http(st, NoHeader, NoBody, NoValue) : st \in ServerStatuses}
    \cup {Http(st, NoHeader, b, NoValue) : st \in ClientStatuses, b \in ErrorBodies}

\* the answers that end a call at once: a 2xx with a JSON body, or a 404
FinalResponses ==
    {Http(200, NoHeader, JsonBody(Absent, Absent), d) : d \in Payloads}
    \cup {Http(404, NoHeader, TextBody(""), NoValue)}

\* the answers of the upstream to concurrent calls: those, and a 429 that asks
\* for a retry at once
CoreResponses ==
    {Http(200, NoHeader, JsonBody(Absent, Absent), d) : d \in Payloads}
    \cup {Http(429, Header(<<"0">>), NoBody, NoValue),
          Http(404, NoHeader, TextBody(""), NoValue)}

\* the outcome of an attempt as the upstream produced it
Outcome(r) ==
    IF r.kind = "reject" THEN "reject"
    ELSE IF r.status = 429 THEN "429"
    ELSE IF r.status >= 500 THEN "5xx"
    ELSE IF r.status < 200 \/ r.status >= 300 THEN "4xx"
    ELSE IF r.body.json = "invalid" THEN "badjson"
    ELSE "ok"

(* ------------------------------------------------------------------ *)
(* The retry loop of deelRequest                                        *)
(* ------------------------------------------------------------------ *)
\* an Error: its message in parts, and the attempt during which it was created
\* (MaxAttempts: after the loop)
NoError == [message |-> <<>>, attempt |-> -1]
TransportError(a) == [message |-> <<"fetch failed">>, attempt |-> a]
DecodeError(a) == [message |-> <<"Unexpected token < in JSON at position 0">>, attempt |-> a]
\* a faulty final error without a message
ExhaustedSilent == [message |-> <<>>, attempt |-> MaxAttempts]
Exhausted == [message |-> <<"Request failed after 3 attempts">>, attempt |-> MaxAttempts]

ScopeHint == ". Check that your API token has the required read scope for this resource."

\* the message built for a response that is not ok
ApiErrorMessage(status, body) ==
    <<"Deel API error", " ", ToString(status)>>
    \o (IF body.json = "object"
        THEN (IF body.message # Absent THEN <<": ", body.message>> ELSE <<>>)
             \o (IF body.errors # Absent THEN <<" - ", body.errors>> ELSE <<>>)
        ELSE IF body.text # "" THEN <<": ", body.text>> ELSE <<>>)
    \o (IF status = 403 THEN <<ScopeHint>> ELSE <<>>)

ApiError(status, body, a) == [message |-> ApiErrorMessage(status, body), attempt |-> a]

\* error.message.startsWith("Deel API error")
IsApiError(err) == err.message # <<>> /\ err.message[1] = "Deel API error"

\* response.ok
Ok(r) == r.status >= 200 /\ r.status <= 299

DigitValue(c) == CHOOSE d \in 0..9 : Digit(d) = c

\* parseInt(text, 10) of a string of decimal digits
RECURSIVE ParseInt(_)
ParseInt(text) ==
    IF text = <<>> THEN 0
    ELSE ParseInt(SubSeq(text, 1, Len(text) - 1)) * 10 + DigitValue(text[Len(text)])

\* a faulty 429 branch that never reads the Retry-After header
RateDelayIgnoresHeader(r, a) == RateBackoffMs * (a + 1)

\* waitMs after a 429
RateDelay(r, a) ==
    IF r.retryAfter.present /\ r.retryAfter.text # <<>>
    THEN ParseInt(r.retryAfter.text) * 1000
    ELSE RateBackoffMs * (a + 1)

\* waitMs after a status >= 500
ServerDelay(a) == ServerBackoffMs * (a + 1)

\* a faulty catch block whose backoff does not grow with the attempt
CatchDelayFlat(a) == CatchBackoffMs

\* waitMs in the catch block
CatchDelay(a) == CatchBackoffMs * (a + 1)

\* a faulty classification that retries every response that is not ok
BranchRetriesClientErrors(r) ==
    IF r.kind = "reject" THEN "catch"
    ELSE IF r.status = 429 THEN "rate"
    ELSE IF ~Ok(r) THEN "server"
    ELSE IF r.body.json = "invalid" THEN "catch"
    ELSE "return"

\* the path a settled fetch takes through the try block
Branch(r) ==
    IF r.kind = "reject" THEN "catch"
    ELSE IF r.status = 429 THEN "rate"
    ELSE IF r.status >= 500 THEN "server"
    ELSE IF ~Ok(r) THEN "client"
    ELSE IF r.body.json = "invalid" THEN "catch"
    ELSE "return"

\* the error that reaches the catch block, if any
Caught(r, a) ==
    IF r.kind = "reject" THEN TransportError(a)
    ELSE IF Branch(r) = "client" THEN ApiError(r.status, r.body, a)
    ELSE DecodeError(a)

\* catch (error): rethrow an API error, else record it and sleep if attempt < 2
Catch(err, a) ==
    IF IsApiError(err) THEN [next |-> "throw", delay |-> 0, error |-> err, recorded |-> FALSE]
    ELSE IF a < 2 THEN [next |-> "sleep", delay |-> CatchDelay(a), error |-> err, recorded |-> TRUE]
    ELSE [next |-> "exit", delay |-> 0, error |-> err, recorded |-> TRUE]

\* one iteration of the loop body, from the settled fetch to its next suspension
Settle(r, a) ==
    LET b == Branch(r)
    IN CASE b = "rate" ->
              [next |-> "sleep", delay |-> RateDelay(r, a), error |-> NoError, recorded |-> FALSE]
         [] b = "server" ->
              [next |-> "sleep", delay |-> ServerDelay(a), error |-> NoError, recorded |-> FALSE]
         [] b = "return" ->
              [next |-> "return", delay |-> 0, error |-> NoError, recorded |-> FALSE]
         [] OTHER -> Catch(Caught(r, a), a)

\* attempt++
NextAttempt(a) == a + 1

\* faulty loop conditions: one iteration fewer, one more
LoopStopsEarly(a) == a < MaxAttempts - 1
LoopRunsOver(a) == a <= MaxAttempts

\* attempt < 3
LoopContinues(a) == a < MaxAttempts

\* a faulty final throw without the fallback error
FinalErrorNoFallback(le) == le

\* throw lastError || new Error("Request failed after 3 attempts")
FinalError(le) == IF le # NoError THEN le ELSE Exhausted

(* ------------------------------------------------------------------ *)
(* ToolResult and the call sites of the tool handlers                   *)
(* ------------------------------------------------------------------ *)
NoResult == [returned |-> FALSE, isError |-> FALSE, text |-> <<>>]

\* success(text): { content: [{ type: "text", text }] }
success(text) == [returned |-> TRUE, isError |-> FALSE, text |-> text]

\* error(message): { content: [{ type: "text", text: `Error: ${message}` }], isError: true }
error(message) == [returned |-> TRUE, isError |-> TRUE, text |-> <<"Error: ">> \o message]

\* the deelRequest call of deel_list_worker_documents, and the two of
\* deel_get_payroll_calendar: the legal entities, then the reports of an entity
Sites == {"documents", "entities", "reports"}
NoSite == "none"
Continued == "continued"

PathOf(site) ==
    CASE site = "documents" -> "/workers/w1/documents"
      [] site = "entities" -> "/legal-entities"
      [] OTHER -> "/gp/legal-entities/e1/reports"

(* ------------------------------------------------------------------ *)
(* Initial states                                                       *)
(* ------------------------------------------------------------------ *)
\* params: the entries of the params argument whose value is defined
NoStart == [at |-> 0, ver |-> 0, params |-> <<>>]

\* no paginating loop is running
NoColl == [size |-> 0, totals |-> FALSE]

LoopOff ==
    /\ lPc = "off"
    /\ lPos = 0
    /\ lAll = <<>>
    /\ lSeen = {}
    /\ lAgain = FALSE
    /\ lWake = 0
    /\ lColl = NoColl

\* deel_get_org_chart is not running
NoChart == [rendered |-> FALSE, tree |-> <<>>, standalone |-> <<>>]

OrgOff ==
    /\ oManager = <<>>
    /\ oOut = NoChart

\* the module state of client.ts after it is loaded, and no call made yet
PipelineInit(window, params) ==
    /\ now = 0
    /\ ticks = 0
    /\ timestamps = window
    /\ suspended = <<>>
    /\ issued = 0
    /\ grants = window
    /\ starts = window
    /\ cache = <<>>
    /\ stored = <<>>
    /\ pc = [p \in Procs |-> "idle"]
    /\ url = [p \in Procs |-> <<>>]
    /\ attempt = [p \in Procs |-> 0]
    /\ lastError = [p \in Procs |-> NoError]
    /\ wakeAt = [p \in Procs |-> 0]
    /\ returned = [p \in Procs |-> NoValue]
    /\ thrown = [p \in Procs |-> NoError]
    /\ outs = [p \in Procs |-> <<>>]
    /\ sleeps = [p \in Procs |-> <<>>]
    /\ nFetch = [p \in Procs |-> 0]
    /\ nStore = [p \in Procs |-> 0]
    /\ began = [p \in Procs |-> NoStart]
    /\ src = [p \in Procs |-> NeverStored]
    /\ uParams = params
    /\ uHref = <<>>
    /\ hTool = [p \in Procs |-> NoSite]
    /\ hResult = [p \in Procs |-> NoResult]

InitState(window, params) == PipelineInit(window, params) /\ LoopOff /\ OrgOff

\* the window left by n earlier calls that started at time 0 and have failed since
\* (nothing cached, nothing in flight)
EarlierStarts(n) == [i \in 1..n |-> 0]

(* ------------------------------------------------------------------ *)
(* The clock                                                            *)
(* ------------------------------------------------------------------ *)
\* the delays until the pending timers are due
Deadlines ==
    {wakeAt[p] - now : p \in {q \in Procs : pc[q] \in {"slot", "sleep"} /\ wakeAt[q] > now}}
    \cup {suspended[i] - now : i \in {j \in DOMAIN suspended : suspended[j] > now}}
    \cup (IF lPc = "slot" /\ lWake > now THEN {lWake - now} ELSE {})

\* Date.now() advances, by one of the steps or up to a pending timer (a timer may
\* fire late, never early)
Tick(steps, limit) ==
    /\ ticks < limit
    /\ \E d \in steps \cup Deadlines :
          /\ now' = now + d
          /\ grants' = Trailing(grants, now + d)
          /\ starts' = Trailing(starts, now + d)
    /\ ticks' = ticks + 1
    /\ UNCHANGED <<timestamps, suspended, issued, cache, stored, callVars, urlVars, toolVars,
                   extVars>>

\* time passes until a pending timer is due or overdue; every pending timer
\* belongs to a suspended call, so these advances need no bound of their own
TimerComesDue ==
    /\ \E d \in Deadlines :
          /\ now' = now + d
          /\ grants' = Trailing(grants, now + d)
          /\ starts' = Trailing(starts, now + d)
    /\ UNCHANGED <<ticks, timestamps, suspended, issued, cache, stored, callVars, urlVars,
                   toolVars, extVars>>

(* ------------------------------------------------------------------ *)
(* waitForSlot called directly                                          *)
(* ------------------------------------------------------------------ *)
\* a caller enters waitForSlot: it returns at once, or suspends in setTimeout
WaitForSlot ==
    /\ issued < MaxSlotCalls
    /\ issued' = issued + 1
    /\ LET ts == Prune(timestamps, now)
       IN IF WindowFull(ts)
          THEN /\ timestamps' = ts
               /\ suspended' = Append(suspended, now + WaitTime(ts, now))
               /\ UNCHANGED grants
          ELSE /\ timestamps' = Push(ts, now)
               /\ grants' = Append(Trailing(grants, now), now)
               /\ UNCHANGED suspended
    /\ UNCHANGED <<now, ticks, starts, cache, stored, callVars, urlVars, toolVars, extVars>>

\* the timer of the longest-suspended caller fires: it pushes and returns
SlotResume ==
    /\ suspended # <<>>
    /\ Head(suspended) <= now
    /\ suspended' = Tail(suspended)
    /\ timestamps' = Push(timestamps, now)
    /\ grants' = Append(Trailing(grants, now), now)
    /\ UNCHANGED <<now, ticks, issued, starts, cache, stored, callVars, urlVars, toolVars, extVars>>

(* ------------------------------------------------------------------ *)
(* deelRequest                                                          *)
(* ------------------------------------------------------------------ *)
\* call p reaches fetch(url.toString(), ...)
IssueFetch(p) ==
    /\ pc' = [pc EXCEPT ![p] = "fetch"]
    /\ nFetch' = [nFetch EXCEPT ![p] = @ + 1]
    /\ starts' = Append(Trailing(starts, now), now)

\* deelRequest(path, params) is called: URL, cache lookup and, on a miss,
\* waitForSlot up to its return or its suspension.  The calls are numbered in the
\* order in which they are made.
Request(p, path, params) ==
    /\ pc[p] = "idle"
    /\ \A q \in Procs : q < p => pc[q] # "idle"
    /\ LET key == Href(path, params)
           cached == CacheGet(cache, key, now)
           ts == Prune(timestamps, now)
       IN /\ url' = [url EXCEPT ![p] = key]
          /\ began' = [began EXCEPT ![p] =
                          [at |-> now,
                           ver |-> IF key \in DOMAIN cache THEN StoredOf(stored, key).ver ELSE 0,
                           params |-> SelectSeq(params, LAMBDA e : e.value # Undefined)]]
          /\ cache' = CacheAfterGet(cache, key, now)
          /\ IF cached # NoValue
             THEN /\ pc' = [pc EXCEPT ![p] = "done"]
                  /\ returned' = [returned EXCEPT ![p] = cached]
                  /\ src' = [src EXCEPT ![p] = StoredOf(stored, key)]
                  /\ UNCHANGED <<timestamps, grants, starts, wakeAt, nFetch>>
             ELSE IF WindowFull(ts)
             THEN /\ timestamps' = ts
                  /\ pc' = [pc EXCEPT ![p] = "slot"]
                  /\ wakeAt' = [wakeAt EXCEPT ![p] = now + WaitTime(ts, now)]
                  /\ UNCHANGED <<grants, starts, returned, src, nFetch>>
             ELSE /\ timestamps' = Push(ts, now)
                  /\ grants' = Append(Trailing(grants, now), now)
                  /\ IssueFetch(p)
                  /\ UNCHANGED <<wakeAt, returned, src>>
    /\ UNCHANGED <<now, ticks, suspended, issued, stored, attempt, lastError, thrown,
                   outs, sleeps, nStore, urlVars, toolVars, extVars>>

\* the timer of waitForSlot fires for call p: push, return, first fetch
SlotGranted(p) ==
    /\ pc[p] = "slot"
    /\ wakeAt[p] <= now
    /\ timestamps' = Push(timestamps, now)
    /\ grants' = Append(Trailing(grants, now), now)
    /\ IssueFetch(p)
    /\ wakeAt' = [wakeAt EXCEPT ![p] = 0]
    /\ UNCHANGED <<now, ticks, suspended, issued, cache, stored, url, attempt, lastError,
                   returned, thrown, outs, sleeps, nStore, began, src, urlVars, toolVars, extVars>>

\* the fetch of call p settles with r: the loop body up to its next suspension
FetchSettles(p, r) ==
    /\ pc[p] = "fetch"
    /\ outs' = [outs EXCEPT ![p] = Append(@, r)]
    /\ LET a == attempt[p]
           s == Settle(r, a)
           le == IF s.recorded THEN s.error ELSE lastError[p]
       IN /\ lastError' = [lastError EXCEPT ![p] = le]
          /\ CASE s.next = "sleep" ->
                    /\ pc' = [pc EXCEPT ![p] = "sleep"]
                    /\ wakeAt' = [wakeAt EXCEPT ![p] = now + s.delay]
                    /\ sleeps' = [sleeps EXCEPT ![p] = Append(@, s.delay)]
                    /\ UNCHANGED <<cache, stored, returned, thrown, nStore, src, attempt>>
               [] s.next = "return" ->
                    /\ cache' = CacheSet(cache, url[p], r.data, now)
                    /\ stored' = StoredAfterSet(stored, url[p], now)
                    /\ nStore' = [nStore EXCEPT ![p] = @ + 1]
                    /\ src' = [src EXCEPT ![p] = StoredAfterSet(stored, url[p], now)[url[p]]]
                    /\ pc' = [pc EXCEPT ![p] = "done"]
                    /\ returned' = [returned EXCEPT ![p] = r.data]
                    /\ UNCHANGED <<wakeAt, sleeps, thrown, attempt>>
               [] s.next = "throw" ->
                    /\ pc' = [pc EXCEPT ![p] = "failed"]
                    /\ thrown' = [thrown EXCEPT ![p] = s.error]
                    /\ UNCHANGED <<cache, stored, wakeAt, sleeps, returned, nStore, src, attempt>>
               [] OTHER ->
                    \* the loop ends without a sleep
                    /\ attempt' = [attempt EXCEPT ![p] = NextAttempt(a)]
                    /\ pc' = [pc EXCEPT ![p] = "failed"]
                    /\ thrown' = [thrown EXCEPT ![p] = FinalError(le)]
                    /\ UNCHANGED <<cache, stored, wakeAt, sleeps, returned, nStore, src>>
    /\ UNCHANGED <<now, ticks, limiterVars, starts, url, nFetch, began, urlVars, toolVars, extVars>>

\* the backoff timer of call p fires: attempt++, then the next fetch or the final throw
BackoffEnds(p) ==
    /\ pc[p] = "sleep"
    /\ wakeAt[p] <= now
    /\ attempt' = [attempt EXCEPT ![p] = NextAttempt(@)]
    /\ IF LoopContinues(NextAttempt(attempt[p]))
       THEN /\ IssueFetch(p)
            /\ UNCHANGED thrown
       ELSE /\ pc' = [pc EXCEPT ![p] = "failed"]
            /\ thrown' = [thrown EXCEPT ![p] = FinalError(lastError[p])]
            /\ UNCHANGED <<nFetch, starts>>
    /\ wakeAt' = [wakeAt EXCEPT ![p] = 0]
    /\ UNCHANGED <<now, ticks, limiterVars, cache, stored, url, lastError,
                   returned, outs, sleeps, nStore, began, src, urlVars, toolVars, extVars>>

(* ------------------------------------------------------------------ *)
(* deel_get_payroll_calendar: what it does with the reports it is given *)
(* ------------------------------------------------------------------ *)
\* Array.prototype.sort with the comparator of the handler: descending, stable
RECURSIVE SortDescending(_)
SortDescending(arr) ==
    IF arr = <<>> THEN <<>>
    ELSE LET rest == SortDescending(Tail(arr))
             before == SelectSeq(rest, LAMBDA x : x > Head(arr))
             after == SelectSeq(rest, LAMBDA x : x <= Head(arr))
         IN before \o <<Head(arr)>> \o after

\* the calls that hold the object that call p was given
SameObject(p) == {q \in Procs : pc[q] = "done" /\ url[q] = url[p] /\ src[q] = src[p]}

\* call p has returned to the handler, which has not sorted repRes.data yet
SortPending(p) ==
    /\ pc[p] = "done"
    /\ returned[p].data # SortDescending(returned[p].data)

\* reports.sort(...): in place, on the array of the object deelRequest returned,
\* which is the object held by the cache entry while that entry is in the Map
SortReports(p) ==
    /\ SortPending(p)
    /\ LET sorted == Envelope(SortDescending(returned[p].data))
       IN /\ returned' = [q \in Procs |-> IF q \in SameObject(p) THEN sorted ELSE returned[q]]
          /\ cache' = IF url[p] \in DOMAIN cache /\ StoredOf(stored, url[p]) = src[p]
                      THEN [cache EXCEPT ![url[p]].data = sorted]
                      ELSE cache
    /\ UNCHANGED <<now, ticks, limiterVars, starts, stored, pc, url, attempt, lastError,
                   wakeAt, thrown, outs, sleeps, nFetch, nStore, began, src, urlVars, toolVars, extVars>>

(* ------------------------------------------------------------------ *)
(* Tool handlers                                                        *)
(* ------------------------------------------------------------------ *)
\* the server invokes deel_list_worker_documents or deel_get_payroll_calendar: the
\* handler is about to make its first deelRequest call, as call p
ToolInvoked(p, site) ==
    /\ pc[p] = "idle"
    /\ hTool[p] = NoSite
    /\ \A q \in Procs : q < p => hTool[q] # NoSite
    /\ hTool' = [hTool EXCEPT ![p] = site]
    /\ UNCHANGED <<now, ticks, limiterVars, starts, cache, stored, callVars, urlVars, hResult,
                   extVars>>

\* the handler calls deelRequest
HandlerRequest(p) ==
    /\ hTool[p] \in Sites
    /\ Request(p, PathOf(hTool[p]), <<>>)

\* the handler resumes after await deelRequest(...): with the value in its try
\* block, or with the exception in the catch block around the call
HandlerResumes(p) ==
    /\ pc[p] \in {"done", "failed"}
    /\ hTool[p] \in Sites
    /\ ~hResult[p].returned
    /\ CASE hTool[p] = "documents" ->
              /\ hResult' = [hResult EXCEPT ![p] =
                     IF pc[p] = "failed" THEN error(thrown[p].message)
                     ELSE IF returned[p].data = <<>> THEN success(<<"No documents found">>)
                     ELSE success(<<"Found documents">>)]
              /\ UNCHANGED hTool
         [] hTool[p] = "entities" /\ (pc[p] = "failed" \/ returned[p].data = <<>>) ->
              /\ hResult' = [hResult EXCEPT ![p] =
                     IF pc[p] = "failed" THEN error(thrown[p].message)
                     ELSE success(<<"No legal entities found.">>)]
              /\ UNCHANGED hTool
         [] hTool[p] = "entities" /\ pc[p] = "done" /\ returned[p].data # <<>> ->
              \* the loop over the entities: the next call is the reports request
              /\ \E q \in Procs :
                    /\ hTool[q] = NoSite
                    /\ \A o \in Procs : o < q => hTool[o] # NoSite
                    /\ hTool' = [hTool EXCEPT ![p] = Continued, ![q] = "reports"]
              /\ UNCHANGED hResult
         [] OTHER ->
              \* the inner try: a failed reports request is written into the output
              /\ hResult' = [hResult EXCEPT ![p] =
                     IF pc[p] = "failed"
                     THEN success(<<"Payroll Calendar:", "Unable to fetch reports">>)
                     ELSE IF returned[p].data = <<>>
                     THEN success(<<"Payroll Calendar:", "No payroll reports">>)
                     ELSE success(<<"Payroll Calendar:", "reports">>)]
              /\ UNCHANGED hTool
    /\ UNCHANGED <<now, ticks, limiterVars, starts, cache, stored, callVars, urlVars, extVars>>

(* ------------------------------------------------------------------ *)
(* Inputs                                                               *)
(* ------------------------------------------------------------------ *)
Limit == <<"l", "i", "m", "i", "t">>
Cursor == <<"c", "u", "r", "s", "o", "r">>
Types == <<"t", "y", "p", "e", "s", "[", "]">>
Entry(k, v) == [key |-> k, value |-> v]

\* the mappings the concurrent calls pass: { limit: 10, cursor: undefined },
\* { limit: 10 } and { limit: 10, cursor: "abc" }
RequestParams ==
    {<<Entry(Limit, Num(10)), Entry(Cursor, Undefined)>>,
     <<Entry(Limit, Num(10))>>,
     <<Entry(Limit, Num(10)), Entry(Cursor, Str(<<"a", "b", "c">>))>>}

ParamKeys == {Limit, Cursor, Types}
ParamValues ==
    {Undefined, Num(0), Num(10), Str(<<>>), Str(<<"a", "b", "c">>),
     Str(<<"a", "&", "b", "=", "1">>), Str(<<"1", " ", "+", "%">>)}

\* the mappings of at most MaxParams entries, in Object.entries order (keys distinct)
ParamMappings ==
    UNION {{m \in [1..n -> {Entry(k, v) : k \in ParamKeys, v \in ParamValues}] :
               \A i, j \in 1..n : i # j => m[i].key # m[j].key} : n \in 0..MaxParams}

PeoplePath == "/people"
ReportsPath == "/gp/legal-entities/e1/reports"

\* the data arrays of the answers to the reports request: start dates (as month
\* numbers) of at most MaxReports reports, in any order
ReportLists ==
    UNION {{arr \in [1..n -> 1..MaxReports] : \A i, j \in 1..n : i # j => arr[i] # arr[j]} :
              n \in 0..MaxReports}

ReportResponses ==
    {Http(200, NoHeader, JsonBody(Absent, Absent), Envelope(arr)) : arr \in ReportLists}
    \cup {Http(404, NoHeader, TextBody(""), NoValue)}

CallSteps == {CACHE_TTL_MS}
SlotSteps == {500}

(* ------------------------------------------------------------------ *)
(* Paginating loops: deelRequest called by one sequential caller         *)
(* ------------------------------------------------------------------ *)
\* waitForSlot as the loop's deelRequest enters it after a cache miss
LoopEnterSlot ==
    LET ts == Prune(timestamps, now)
    IN IF WindowFull(ts)
       THEN /\ timestamps' = ts
            /\ lPc' = "slot"
            /\ lWake' = now + WaitTime(ts, now)
            /\ UNCHANGED <<grants, starts>>
       ELSE /\ timestamps' = Push(ts, now)
            /\ grants' = Append(Trailing(grants, now), now)
            /\ starts' = Append(Trailing(starts, now), now)
            /\ lPc' = "fetch"
            /\ UNCHANGED lWake

\* the timer of waitForSlot fires for the loop's call: push, return, fetch
LoopSlotGranted ==
    /\ lPc = "slot"
    /\ lWake <= now
    /\ timestamps' = Push(timestamps, now)
    /\ grants' = Append(Trailing(grants, now), now)
    /\ starts' = Append(Trailing(starts, now), now)
    /\ lPc' = "fetch"
    /\ lWake' = 0
    /\ UNCHANGED <<now, ticks, suspended, issued, cache, stored, callVars, urlVars, toolVars,
                   lPos, lAll, lSeen, lAgain, lColl, orgVars>>

\* a value of type string | undefined in a condition: if (cursor), while (cursor)
Truthy(v) == v.t = "string" /\ v.s # <<>>

(* ------------------------------------------------------------------ *)
(* fetchAllTimeOff                                                      *)
(* ------------------------------------------------------------------ *)
TimeOffPath == "/time_offs"
NextParam == <<"n", "e", "x", "t">>

\* a /time_offs response: { has_next_page, next, data: [...] }
TimeOffPage(rows, hasNext, next) ==
    [defined |-> TRUE, data |-> rows, has_next_page |-> hasNext, next |-> next]

Tokens == {Str(<<"c", "1">>), Str(<<"c", "2">>)}

\* the successful responses of the upstream: with or without rows, with or
\* without a next token, which may be the empty string
TimeOffPages ==
    {TimeOffPage(rows, h, n) :
        rows \in {<<>>, <<1>>}, h \in BOOLEAN, n \in {Undefined, Str(<<>>)} \cup Tokens}

\* the params of one iteration: no filter, and next if the cursor is set
TimeOffParams(cursor) == IF Truthy(cursor) THEN <<Entry(NextParam, cursor)>> ELSE <<>>

\* the cursor after a response: hasNext ? raw.next : undefined
NextCursor(page) == IF page.has_next_page THEN page.next ELSE Undefined

\* the loop body after await deelRequest(...), up to the loop condition
TimeOffAfter(page) ==
    /\ lAll' = lAll \o page.data
    /\ lPos' = NextCursor(page)
    /\ lPc' = IF Truthy(NextCursor(page)) THEN "call" ELSE "end"

\* one iteration begins: params, deelRequest up to the cache lookup; a hit is
\* returned at once and the iteration completes, a miss goes to waitForSlot
TimeOffRequest ==
    /\ lPc = "call"
    /\ Len(lAll) <= MaxTimeOffRows
    /\ LET key == Href(TimeOffPath, TimeOffParams(lPos))
           cached == CacheGet(cache, key, now)
       IN /\ lSeen' = lSeen \cup {lPos}
          /\ lAgain' = (lAgain \/ lPos \in lSeen)
          /\ cache' = CacheAfterGet(cache, key, now)
          /\ IF cached # NoValue
             THEN /\ TimeOffAfter(cached)
                  /\ UNCHANGED <<timestamps, grants, starts, lWake>>
             ELSE /\ LoopEnterSlot
                  /\ UNCHANGED <<lAll, lPos>>
    /\ UNCHANGED <<now, ticks, suspended, issued, stored, callVars, urlVars, toolVars,
                   lColl, orgVars>>

\* the fetch is answered with a 2xx whose body is page: cacheSet, return, and
\* the rest of the iteration
TimeOffFetchSettles(page) ==
    /\ lPc = "fetch"
    /\ LET key == Href(TimeOffPath, TimeOffParams(lPos))
       IN /\ cache' = CacheSet(cache, key, page, now)
          /\ stored' = StoredAfterSet(stored, key, now)
    /\ TimeOffAfter(page)
    /\ UNCHANGED <<now, ticks, limiterVars, starts, callVars, urlVars, toolVars,
                   lSeen, lAgain, lWake, lColl, orgVars>>

(* ------------------------------------------------------------------ *)
(* fetchAllPeople, and the same loop in deel_get_headcount_summary       *)
(* ------------------------------------------------------------------ *)
Offset == <<"o", "f", "f", "s", "e", "t">>

\* { limit, offset }
PeopleParams(offset) == <<Entry(Limit, Num(PeopleLimit)), Entry(Offset, Num(offset))>>

\* page.total_rows of a response, when the response carries it
NoTotal == [present |-> FALSE, total_rows |-> 0]
Total(n) == [present |-> TRUE, total_rows |-> n]

\* a /people response: { data: [...], page: { total_rows } }
PeoplePage(rows, total) == [defined |-> TRUE, data |-> rows, page |-> total]

\* the upstream's answer for { limit, offset }: the rows offset+1 .. offset+limit
\* of its collection, as far as they exist (rows are numbered from 1)
UpstreamPeople(coll, limit, offset) ==
    LET n == IF coll.size - offset <= 0 THEN 0
             ELSE IF coll.size - offset < limit THEN coll.size - offset
             ELSE limit
    IN PeoplePage([i \in 1..n |-> offset + i],
                  IF coll.totals THEN Total(coll.size) ELSE NoTotal)

\* the loop body after await deelRequest(...): push, total, break or offset += limit
PeopleAfter(page) ==
    LET all == lAll \o page.data
        total == IF page.page.present THEN page.page.total_rows ELSE Len(page.data)
    IN /\ lAll' = all
       /\ IF Len(all) >= total \/ Len(page.data) < PeopleLimit
          THEN lPc' = "end" /\ UNCHANGED lPos
          ELSE lPc' = "call" /\ lPos' = lPos + PeopleLimit

\* one iteration begins: deelRequest("/people", { limit, offset }) up to the
\* cache lookup; a hit completes the iteration, a miss goes to waitForSlot
PeopleRequest ==
    /\ lPc = "call"
    /\ LET key == Href(PeoplePath, PeopleParams(lPos))
           cached == CacheGet(cache, key, now)
       IN /\ lSeen' = lSeen \cup {lPos}
          /\ lAgain' = (lAgain \/ lPos \in lSeen)
          /\ cache' = CacheAfterGet(cache, key, now)
          /\ IF cached # NoValue
             THEN /\ PeopleAfter(cached)
                  /\ UNCHANGED <<timestamps, grants, starts, lWake>>
             ELSE /\ LoopEnterSlot
                  /\ UNCHANGED <<lAll, lPos>>
    /\ UNCHANGED <<now, ticks, suspended, issued, stored, callVars, urlVars, toolVars,
                   lColl, orgVars>>

\* the fetch is answered with the page of the collection at the offset: cacheSet,
\* return, and the rest of the iteration
PeopleFetchSettles ==
    /\ lPc = "fetch"
    /\ LET key == Href(PeoplePath, PeopleParams(lPos))
           page == UpstreamPeople(lColl, PeopleLimit, lPos)
       IN /\ cache' = CacheSet(cache, key, page, now)
          /\ stored' = StoredAfterSet(stored, key, now)
          /\ PeopleAfter(page)
    /\ UNCHANGED <<now, ticks, limiterVars, starts, callVars, urlVars, toolVars,
                   lSeen, lAgain, lWake, lColl, orgVars>>

(* ------------------------------------------------------------------ *)
(* deel_get_org_chart: the tree it renders from the active people        *)
(* People are numbered in the order of their full_name; direct_manager   *)
(* is the number of a person, NoManager, or the id of someone who is not *)
(* among the active people.                                              *)
(* ------------------------------------------------------------------ *)
NoManager == 0

\* the elements of a set of numbers in ascending order: sort(sortByName)
RECURSIVE Ascending(_)
Ascending(S) ==
    IF S = {} THEN <<>>
    ELSE LET x == CHOOSE x \in S : \A y \in S : x <= y
         IN <<x>> \o Ascending(S \ {x})

\* !managerId || !byId.has(managerId)
IsRoot(m, p) == m[p] = NoManager \/ m[p] \notin DOMAIN m

\* children.get(id), sorted
ChildrenOf(m, id) == Ascending({p \in DOMAIN m : ~IsRoot(m, p) /\ m[p] = id})

\* children.has(id)
HasChildren(m, id) == \E p \in DOMAIN m : ~IsRoot(m, p) /\ m[p] = id

\* renderPerson(p, depth) with the visited set it reads and extends, and the
\* loop over the reports of a person
RECURSIVE RenderPerson(_, _, _, _), RenderReports(_, _, _, _)
RenderPerson(m, p, depth, visited) ==
    IF p \in visited THEN [lines |-> <<>>, visited |-> visited]
    ELSE LET sub == RenderReports(m, ChildrenOf(m, p), depth + 1, visited \cup {p})
         IN [lines |-> <<[person |-> p, depth |-> depth]>> \o sub.lines,
             visited |-> sub.visited]

RenderReports(m, list, depth, visited) ==
    IF list = <<>> THEN [lines |-> <<>>, visited |-> visited]
    ELSE LET first == RenderPerson(m, Head(list), depth, visited)
             rest == RenderReports(m, Tail(list), depth, first.visited)
         IN [lines |-> first.lines \o rest.lines, visited |-> rest.visited]

\* the output: the lines of the trees under the roots that have reports, then
\* the roots without reports
OrgChart(m) ==
    LET roots == Ascending({p \in DOMAIN m : IsRoot(m, p)})
        treeRoots == SelectSeq(roots, LAMBDA p : HasChildren(m, p))
        standalone == SelectSeq(roots, LAMBDA p : ~HasChildren(m, p))
    IN [rendered |-> TRUE,
        tree |-> RenderReports(m, treeRoots, 0, {}).lines,
        standalone |-> standalone]

\* the handler, from the list of active people to its output
BuildOrgChart ==
    /\ ~oOut.rendered
    /\ oManager # <<>>
    /\ oOut' = OrgChart(oManager)
    /\ UNCHANGED <<now, ticks, limiterVars, starts, cache, stored, callVars, urlVars, toolVars,
                   loopVars, oManager>>

(* ------------------------------------------------------------------ *)
(* Specifications                                                       *)
(* ------------------------------------------------------------------ *)
\* concurrent deelRequest calls
Init == \E n \in {0, maxRequests - 1} : InitState(EarlierStarts(n), <<>>)

Next ==
    \/ \E p \in Procs : \E m \in RequestParams : Request(p, PeoplePath, m)
    \/ \E p \in Procs : SlotGranted(p)
    \/ \E p \in Procs : \E r \in CoreResponses : FetchSettles(p, r)
    \/ \E p \in Procs : BackoffEnds(p)
    \/ Tick(CallSteps, MaxTicks)

Spec == Init /\ [][Next]_vars

\* concurrent deelRequest calls whose fetches are all answered with a final
\* answer: no call retries, so no backoff timer is ever set
CacheNext ==
    \/ \E p \in Procs : \E m \in RequestParams : Request(p, PeoplePath, m)
    \/ \E p \in Procs : SlotGranted(p)
    \/ \E p \in Procs : \E r \in FinalResponses : FetchSettles(p, r)
    \/ Tick(CallSteps, MaxTicks)

SpecCache == Init /\ [][CacheNext]_vars

\* deelRequest as deel_get_payroll_calendar calls it for the reports of one legal
\* entity: the handler resumes, and sorts, as soon as the call has returned, before
\* any timer or fetch completion is handled
HandlersResumed == \A p \in Procs : ~SortPending(p)

CalendarNext ==
    \/ \E p \in Procs : SortReports(p)
    \/ \E p \in Procs : HandlersResumed /\ Request(p, ReportsPath, <<>>)
    \/ \E p \in Procs : HandlersResumed /\ SlotGranted(p)
    \/ \E p \in Procs : \E r \in ReportResponses : HandlersResumed /\ FetchSettles(p, r)
    \/ HandlersResumed /\ Tick(CallSteps, MaxTicks)

SpecCalendar == Init /\ [][CalendarNext]_vars

\* concurrent deelRequest calls in a burst: calls retry, and the clock moves only
\* to the deadlines of pending timers, far from the expiry of any entry
BurstNext ==
    \/ \E p \in Procs : \E m \in RequestParams : Request(p, PeoplePath, m)
    \/ \E p \in Procs : SlotGranted(p)
    \/ \E p \in Procs : \E r \in CoreResponses : FetchSettles(p, r)
    \/ \E p \in Procs : BackoffEnds(p)
    \/ TimerComesDue

SpecBurst == Init /\ [][BurstNext]_vars

\* tool handlers and the deelRequest calls they make
ToolInit == InitState(<<>>, <<>>)

ToolNext ==
    \/ \E p \in Procs : \E site \in {"documents", "entities"} : ToolInvoked(p, site)
    \/ \E p \in Procs : HandlerRequest(p)
    \/ \E p \in Procs : \E r \in FinalResponses : FetchSettles(p, r)
    \/ \E p \in Procs : HandlerResumes(p)

SpecTools == ToolInit /\ [][ToolNext]_vars

\* one deelRequest call against every response of the upstream
RetryInit == \E n \in {0, maxRequests} : InitState(EarlierStarts(n), <<>>)

RetryNext ==
    \/ \E m \in RequestParams : Request(1, PeoplePath, m)
    \/ SlotGranted(1)
    \/ \E r \in Responses : FetchSettles(1, r)
    \/ BackoffEnds(1)
    \/ Tick({}, MaxRetryTicks)

SpecRetry == RetryInit /\ [][RetryNext]_vars

\* one deelRequest call, where every fetch settles and every timer fires
SpecRetryLive ==
    /\ RetryInit
    /\ [][RetryNext]_vars
    /\ WF_vars(SlotGranted(1))
    /\ WF_vars(\E r \in Responses : FetchSettles(1, r))
    /\ WF_vars(BackoffEnds(1))
    /\ WF_vars(Tick({}, MaxRetryTicks))

\* callers of waitForSlot alone
LimiterInit == InitState(<<>>, <<>>)

LimiterNext ==
    \/ WaitForSlot
    \/ SlotResume
    \/ Tick(SlotSteps, MaxSlotTicks)

SpecLimiter == LimiterInit /\ [][LimiterNext]_vars

\* callers of waitForSlot alone, where every timer that is set fires: setTimeout
\* callbacks run once their delay has passed
LimiterLiveNext ==
    \/ WaitForSlot
    \/ SlotResume
    \/ Tick(SlotSteps, MaxSlotTicks)
    \/ TimerComesDue

SpecLimiterLive ==
    /\ LimiterInit
    /\ [][LimiterLiveNext]_vars
    /\ WF_vars(TimerComesDue)
    /\ WF_vars(SlotResume)

\* fetchAllTimeOff against an upstream whose every answer is a successful one
TimeOffInit ==
    /\ \E n \in {0, maxRequests} : PipelineInit(EarlierStarts(n), <<>>)
    /\ lPc = "call"
    /\ lPos = Undefined
    /\ lAll = <<>>
    /\ lSeen = {}
    /\ lAgain = FALSE
    /\ lWake = 0
    /\ lColl = NoColl
    /\ OrgOff

TimeOffNext ==
    \/ TimeOffRequest
    \/ LoopSlotGranted
    \/ \E page \in TimeOffPages : TimeOffFetchSettles(page)
    \/ TimerComesDue

\* the loop runs on, every fetch is answered and every timer fires
SpecTimeOff ==
    /\ TimeOffInit
    /\ [][TimeOffNext]_vars
    /\ WF_vars(TimeOffRequest)
    /\ WF_vars(LoopSlotGranted)
    /\ WF_vars(\E page \in TimeOffPages : TimeOffFetchSettles(page))
    /\ WF_vars(TimerComesDue)

\* fetchAllPeople against an upstream collection of any size up to MaxPeople,
\* whose pages all carry page.total_rows or all lack it
Collections == {[size |-> n, totals |-> b] : n \in 0..MaxPeople, b \in BOOLEAN}

PeopleInit ==
    /\ \E n \in {0, maxRequests} : PipelineInit(EarlierStarts(n), <<>>)
    /\ lPc = "call"
    /\ lPos = 0
    /\ lAll = <<>>
    /\ lSeen = {}
    /\ lAgain = FALSE
    /\ lWake = 0
    /\ lColl \in Collections
    /\ OrgOff

PeopleNext ==
    \/ PeopleRequest
    \/ LoopSlotGranted
    \/ PeopleFetchSettles
    \/ TimerComesDue

SpecPeople == PeopleInit /\ [][PeopleNext]_vars

\* deel_get_org_chart on every direct_manager relation among at most MaxOrg
\* active people
OrgInputs == UNION {[1..n -> 0..(n + 1)] : n \in 1..MaxOrg}

OrgInit ==
    /\ PipelineInit(<<>>, <<>>)
    /\ LoopOff
    /\ oManager \in OrgInputs
    /\ oOut = NoChart

SpecOrgChart == OrgInit /\ [][BuildOrgChart]_vars

\* the URL of one mapping
UrlInit == \E m \in ParamMappings : InitState(<<>>, m)

BuildUrl ==
    /\ uHref = <<>>
    /\ uHref' = Href(PeoplePath, uParams)
    /\ UNCHANGED <<now, ticks, limiterVars, starts, cache, stored, callVars, uParams, toolVars,
                   extVars>>

SpecUrl == UrlInit /\ [][BuildUrl]_vars

(* ------------------------------------------------------------------ *)
(* Claims                                                               *)
(* ------------------------------------------------------------------ *)

\* C1: at most maxRequests calls of waitForSlot return within any trailing window
\* of windowMs; grants holds the returns of the window that ends at the latest one.
C1_SlotGrantCap == Len(grants) <= maxRequests

\* C2: at most maxRequests fetch calls (first attempts and retries of all
\* deelRequest calls) start within any trailing window of windowMs.
C2_FetchStartCap == Len(starts) <= maxRequests

\* the outcomes of the attempts of call p so far
Outcomes(p) == [i \in DOMAIN outs[p] |-> Outcome(outs[p][i])]
LastOut(p) == outs[p][Len(outs[p])]
AllOutcomes(p, kind) == \A i \in DOMAIN outs[p] : Outcome(outs[p][i]) = kind

\* C3, as written: of two calls with the same resolved URL made within one TTL of
\* each other, the second makes no fetch and returns what the first returned.
C3_SecondCallFromCache ==
    \A p, q \in Procs :
        (/\ p < q
         /\ pc[q] # "idle"
         /\ url[p] = url[q]
         /\ began[q].at - began[p].at <= CACHE_TTL_MS)
        => /\ nFetch[q] = 0
           /\ (pc[p] = "done" /\ pc[q] = "done" => returned[q] = returned[p])

\* C3, amended: if the first call has returned and the second is made while the
\* entry the first stored or was served from is still the cached one and at most
\* 24 h after that entry was stored, the second makes no fetch and returns the
\* payload the first returned.
C3_HitWhileEntryLive ==
    \A p, q \in Procs :
        (/\ p < q
         /\ pc[p] = "done"
         /\ pc[q] # "idle"
         /\ url[p] = url[q]
         /\ began[q].ver = src[p].ver
         /\ began[q].at <= src[p].at + CACHE_TTL_MS)
        => /\ pc[q] = "done"
           /\ nFetch[q] = 0
           /\ returned[q] = returned[p]

\* a second call served, a full TTL later, the entry the first call had stored
C3_Witness ==
    \E p, q \in Procs :
        /\ p < q
        /\ pc[p] = "done" /\ nFetch[p] > 0
        /\ pc[q] = "done" /\ nFetch[q] = 0
        /\ url[p] = url[q]
        /\ began[q].ver = src[p].ver
        /\ began[q].at = src[p].at + CACHE_TTL_MS
        /\ returned[q] = returned[p]

\* an entry that has not expired
LiveEntry(key) == key \in DOMAIN cache /\ now <= cache[key].expiresAt

\* C4: a call made while a live entry exists for its URL returns that entry's
\* payload and leaves the cache, the timestamp list and the fetch log unchanged,
\* with no fetch, no slot wait and no backoff sleep.
C4_CacheHitFrame ==
    [][\A p \in Procs :
          (pc[p] = "idle" /\ pc'[p] # "idle" /\ LiveEntry(url'[p]))
          => /\ pc'[p] = "done"
             /\ returned'[p] = cache[url'[p]].data
             /\ cache' = cache
             /\ timestamps' = timestamps
             /\ starts' = starts
             /\ grants' = grants
             /\ nFetch'[p] = 0
             /\ sleeps'[p] = <<>>
             /\ wakeAt'[p] = wakeAt[p]]_vars

\* a call served from an entry stored earlier, after the clock has advanced
C4_Witness ==
    \E p \in Procs :
        /\ pc[p] = "done" /\ nFetch[p] = 0
        /\ src[p].ver > 0
        /\ began[p].at > src[p].at
        /\ returned[p] = cache[url[p]].data

\* C5: while the upstream has answered only 429, at most twice, the call goes on
\* to another attempt after one sleep per 429; when a 2xx with a JSON body
\* follows k <= 2 such answers the call returns that body after exactly k sleeps
\* and k + 1 fetches.
C5_RetryThenSuccess ==
    \A p \in Procs :
        LET n == Len(outs[p])
        IN /\ (n \in 1..2 /\ AllOutcomes(p, "429"))
              => /\ pc[p] \in {"sleep", "fetch"}
                 /\ Len(sleeps[p]) = n
                 /\ nFetch[p] = IF pc[p] = "fetch" THEN n + 1 ELSE n
           /\ (/\ n \in 1..3
               /\ Outcome(LastOut(p)) = "ok"
               /\ \A i \in 1..(n - 1) : Outcome(outs[p][i]) = "429")
              => /\ pc[p] = "done"
                 /\ returned[p] = LastOut(p).data
                 /\ Len(sleeps[p]) = n - 1
                 /\ nFetch[p] = n

\* the case 429, 429, 200
C5_Witness ==
    \E p \in Procs :
        /\ Outcomes(p) = <<"429", "429", "ok">>
        /\ pc[p] = "done"
        /\ returned[p] = Envelope(<<2>>)
        /\ Len(sleeps[p]) = 2

\* C6: when all three attempts were answered with a status >= 500 the call does
\* not return a value and stores nothing, and the error it throws is the
\* exhaustion message or names the last status.
C6_ServerErrorExhaustion ==
    \A p \in Procs :
        (Len(outs[p]) = 3 /\ AllOutcomes(p, "5xx"))
        => /\ pc[p] \in {"sleep", "failed"}
           /\ returned[p] = NoValue
           /\ nStore[p] = 0
           /\ url[p] \notin DOMAIN cache
           /\ pc[p] = "failed"
              => \/ thrown[p].message = <<"Request failed after 3 attempts">>
                 \/ ToString(LastOut(p).status) \in Range(thrown[p].message)

\* three answers >= 500 and the call has thrown
C6_Witness ==
    \E p \in Procs :
        /\ Len(outs[p]) = 3 /\ AllOutcomes(p, "5xx")
        /\ pc[p] = "failed"
        /\ thrown[p] # NoError

C8_DecodeErrorNotRetried ==
    \A p \in Procs :
        (outs[p] # <<>> /\ Outcome(LastOut(p)) = "badjson")
        => /\ pc[p] = "failed"
           /\ nFetch[p] = Len(outs[p])
           /\ Len(sleeps[p]) = Len(outs[p]) - 1

\* C9: a call makes at most 3 fetches, and every answer that is retried, a 429
\* like a 5xx or a rejected fetch, uses up one attempt index.
C9_BoundedAttempts ==
    \A p \in Procs :
        /\ nFetch[p] <= 3
        /\ nFetch[p] = Len(outs[p]) + (IF pc[p] = "fetch" THEN 1 ELSE 0)
        /\ pc[p] = "fetch" => attempt[p] = Len(outs[p])
        /\ pc[p] = "sleep" => attempt[p] = Len(outs[p]) - 1

\* three attempts used up by a 429, a rejected fetch and a 5xx
C9_Witness ==
    \E p \in Procs :
        /\ Outcomes(p) = <<"429", "reject", "5xx">>
        /\ nFetch[p] = 3
        /\ pc[p] = "failed"

(* What a reader of the URL finds in its query: the application/x-www-form-      *)
(* urlencoded parser, the inverse of the serializer above.                       *)
Escaped == {"&", "=", "%", "+", "[", "]", "?", "#"}
Unhex(x, y) == CHOOSE c \in Escaped : HexOf(c) = <<x, y>>

RECURSIVE Decode(_)
Decode(str) ==
    IF str = <<>> THEN <<>>
    ELSE IF Head(str) = "+" THEN <<" ">> \o Decode(Tail(str))
    ELSE IF Head(str) = "%" /\ Len(str) >= 3
         THEN <<Unhex(str[2], str[3])>> \o Decode(SubSeq(str, 4, Len(str)))
    ELSE <<Head(str)>> \o Decode(Tail(str))

FirstIndex(str, c) == CHOOSE i \in DOMAIN str : str[i] = c /\ \A j \in 1..(i - 1) : str[j] # c

RECURSIVE SplitOn(_, _)
SplitOn(str, sep) ==
    IF sep \notin Range(str) THEN <<str>>
    ELSE LET i == FirstIndex(str, sep)
         IN <<SubSeq(str, 1, i - 1)>> \o SplitOn(SubSeq(str, i + 1, Len(str)), sep)

ParsePair(seg) ==
    IF "=" \in Range(seg)
    THEN LET i == FirstIndex(seg, "=")
         IN <<Decode(SubSeq(seg, 1, i - 1)), Decode(SubSeq(seg, i + 1, Len(seg)))>>
    ELSE <<Decode(seg), <<>>>>

\* the name-value pairs of the query of href, in order
ParseQuery(href) ==
    IF Len(href) < 2 \/ href[2] # "?" THEN <<>>
    ELSE LET segs == SelectSeq(SplitOn(SubSeq(href, 3, Len(href)), "&"),
                               LAMBDA g : g # <<>>)
         IN [i \in DOMAIN segs |-> ParsePair(segs[i])]

IsDefined(e) == e.value # Undefined

\* C10: the query of the resolved URL holds exactly one parameter
\* key=String(value) for every entry with a defined value and none for an entry
\* whose value is undefined, so the URL is that of the mapping without its
\* undefined entries.
C10_UrlParams ==
    uHref # <<>>
    => LET q == ParseQuery(uHref)
       IN /\ uHref[1] = BASE_URL \o PeoplePath
          /\ Len(q) = Len(SelectSeq(uParams, IsDefined))
          /\ \A i \in DOMAIN uParams :
                LET e == uParams[i]
                    at == {j \in DOMAIN q : q[j][1] = e.key}
                IN IF IsDefined(e)
                   THEN Cardinality(at) = 1
                        /\ \A j \in at : q[j][2] = String(e.value)
                   ELSE at = {}
          /\ uHref = Href(PeoplePath, SelectSeq(uParams, IsDefined))

\* { limit: 10, cursor: undefined } has resolved to a URL with limit=10 alone
C10_Witness ==
    /\ uParams = <<Entry(Limit, Num(10)), Entry(Cursor, Undefined)>>
    /\ uHref = <<BASE_URL \o PeoplePath, "?", "l", "i", "m", "i", "t", "=", "1", "0">>

\* the answers of the upstream that are HTTP responses other than 2xx
IsNon2xx(r) == r.kind = "http" /\ ~Ok(r)

\* C11: a call that failed after a last answer that was an HTTP response other
\* than 2xx (a 4xx at once, or a 429 or 5xx on the third attempt) throws an
\* error whose message carries the status of that response, and the body's
\* message when it has one.
C11_UpstreamErrorCarriesStatus ==
    \A p \in Procs :
        (pc[p] = "failed" /\ outs[p] # <<>> /\ IsNon2xx(LastOut(p)))
        => /\ ToString(LastOut(p).status) \in Range(thrown[p].message)
           /\ (LastOut(p).body.json = "object" /\ LastOut(p).body.message # Absent)
              => LastOut(p).body.message \in Range(thrown[p].message)

\* C12: a rejected fetch on attempt a < 2 is followed by a sleep of 1000*(a+1) ms
\* and another attempt; on attempt 2 the call throws without a further sleep;
\* after three rejected fetches the error thrown is that of the third attempt and
\* the sleeps were 1000 ms and 2000 ms.
C12_TransportRetry ==
    \A p \in Procs :
        LET n == Len(outs[p])
        IN /\ (n \in 1..2 /\ Outcome(LastOut(p)) = "reject")
              => /\ pc[p] \in {"sleep", "fetch"}
                 /\ Len(sleeps[p]) = n
                 /\ sleeps[p][n] = 1000 * n
                 /\ lastError[p] = TransportError(n - 1)
                 /\ pc[p] = "fetch" => nFetch[p] = n + 1
           /\ (n = 3 /\ Outcome(LastOut(p)) = "reject")
              => /\ pc[p] = "failed"
                 /\ Len(sleeps[p]) = 2
                 /\ nFetch[p] = 3
                 /\ thrown[p] = TransportError(2)
           /\ (n = 3 /\ AllOutcomes(p, "reject"))
              => sleeps[p] = <<1000, 2000>>

\* three rejected fetches: the third attempt's error is thrown after 1000 + 2000 ms
C12_Witness ==
    \E p \in Procs :
        /\ Outcomes(p) = <<"reject", "reject", "reject">>
        /\ pc[p] = "failed"
        /\ thrown[p] = TransportError(2)
        /\ sleeps[p] = <<1000, 2000>>
        /\ now = 3000

\* a call that has missed the cache and has neither returned nor thrown
InFlight(p) == pc[p] \in {"slot", "fetch", "sleep"}

Creator(key) == {p \in Procs : nStore[p] = 1 /\ url[p] = key /\ src[p] = stored[key]}

\* C14: the payload of every live cache entry equals the parsed body of the 2xx
\* response that created the entry.
C14_CachePayloadIntegrity ==
    \A key \in DOMAIN cache :
        LiveEntry(key) => \A p \in Creator(key) : cache[key].data = LastOut(p).data

\* C17: when the deelRequest call a handler made has thrown, the ToolResult the
\* handler returns has isError = true and the text "Error: <message>"; a handler
\* whose call returned a value returns a result without isError.
C17_FailuresBecomeErrorResults ==
    \A p \in Procs :
        (hTool[p] \in Sites /\ hResult[p].returned)
        => /\ pc[p] = "failed" => hResult[p] = error(thrown[p].message)
           /\ pc[p] = "done" => ~hResult[p].isError

\* C15: every waitForSlot call returns: a caller that suspends is given a wait
\* above 10 ms and of at most windowMs + 10 ms, its timer is never further away
\* than that, it returns (with its timestamp recorded) when it is resumed, without
\* a second wait, and every suspended caller is eventually resumed.
C15_SlotAlwaysGranted ==
    /\ [](\A i \in DOMAIN suspended : suspended[i] - now <= windowMs + SlotMargin)
    /\ [][/\ Len(suspended') > Len(suspended)
             => LET wait == suspended'[Len(suspended')] - now
                IN wait > SlotMargin /\ wait <= windowMs + SlotMargin
          /\ Len(suspended') < Len(suspended)
             => /\ suspended' = Tail(suspended)
                /\ timestamps' = Append(timestamps, now)]_vars
    /\ \A k \in 1..MaxSlotCalls : (Len(suspended) = k) ~> (Len(suspended) < k)

\* callers that were suspended have all returned: the list holds more than
\* maxRequests timestamps, which only a resumed caller brings about
C15_Witness ==
    /\ suspended = <<>>
    /\ Len(timestamps) > maxRequests
    /\ issued = MaxSlotCalls

\* C16: a call ends in exactly one of two ways.  If it has returned, it has thrown
\* nothing and its value is a cached payload or the parsed body of the 2xx
\* response of its last attempt; if it has thrown, it has returned no value, its
\* last attempt did not end in a parsed 2xx, it stored nothing and the message of
\* its error is not empty.  Every call that is under way ends.
C16_CallEnds ==
    /\ [](\A p \in Procs :
             /\ pc[p] = "done"
                => /\ thrown[p] = NoError
                   /\ returned[p] # NoValue
                   /\ nFetch[p] > 0
                      => Outcome(LastOut(p)) = "ok" /\ returned[p] = LastOut(p).data
             /\ pc[p] = "failed"
                => /\ returned[p] = NoValue
                   /\ thrown[p] # NoError
                   /\ thrown[p].message # <<>>
                   /\ nStore[p] = 0
                   /\ Outcome(LastOut(p)) # "ok"
             /\ pc[p] \in {"done", "failed"} => wakeAt[p] = 0)
    /\ \A p \in Procs : InFlight(p) ~> (pc[p] \in {"done", "failed"})

\* three answers 429 without a Retry-After header: the call has thrown the
\* exhaustion error after sleeping 2000, 4000 and 6000 ms
C16_Witness ==
    \E p \in Procs :
        /\ pc[p] = "failed"
        /\ Outcomes(p) = <<"429", "429", "429">>
        /\ sleeps[p] = <<2000, 4000, 6000>>
        /\ thrown[p] = Exhausted

\* C18: the step in which a call issues its first fetch is the step in which its
\* waitForSlot returns, recording one timestamp; the timestamp list changes in no
\* other step except the pruning of a call that suspends; the end of a backoff
\* leads to the next fetch or to the final throw, whether or not a live entry for
\* the URL has appeared meanwhile, and leaves timestamps and cache alone.
C18_ThrottleOnce ==
    [][/\ \A p \in Procs :
            /\ (nFetch[p] = 0 /\ nFetch'[p] > 0)
               => /\ nFetch'[p] = 1 /\ pc'[p] = "fetch"
                  /\ Len(timestamps') >= 1
                  /\ timestamps'[Len(timestamps')] = now
                  /\ SubSeq(timestamps', 1, Len(timestamps') - 1)
                        = (IF pc[p] = "idle" THEN SelectSeq(timestamps, LAMBDA x : now - x < windowMs)
                           ELSE timestamps)
            /\ (pc[p] = "sleep" /\ pc'[p] # "sleep")
               => /\ timestamps' = timestamps
                  /\ cache' = cache
                  /\ returned'[p] = NoValue
                  /\ IF attempt[p] + 1 < MaxAttempts
                     THEN pc'[p] = "fetch" /\ nFetch'[p] = nFetch[p] + 1
                     ELSE pc'[p] = "failed" /\ nFetch'[p] = nFetch[p]
            /\ (pc[p] = "fetch" /\ pc'[p] # "fetch") => timestamps' = timestamps
       /\ timestamps' # timestamps
          => \E p \in Procs : \/ nFetch[p] = 0 /\ nFetch'[p] = 1
                              \/ pc[p] = "idle" /\ pc'[p] = "slot"]_vars

\* from a cold start two calls for one URL have fetched three times on two slots:
\* one call was answered 429 and retried, and stored after the other had stored
C18_Witness ==
    \E p, q \in Procs :
        /\ p # q /\ url[p] = url[q]
        /\ pc[p] = "done" /\ pc[q] = "done"
        /\ nFetch[q] = 1 /\ nFetch[p] = 2
        /\ Outcomes(p) = <<"429", "ok">>
        /\ src[q].ver = 1 /\ src[p].ver = 2
        /\ Len(timestamps) = 2
        /\ Len(starts) = 3

\* the entry for key differs between the two states of a step
EntryChanges(key) ==
    \/ (key \in DOMAIN cache) # (key \in DOMAIN cache')
    \/ key \in DOMAIN cache /\ key \in DOMAIN cache' /\ cache'[key] # cache[key]

\* in this step call p starts, for key
Starts(p, key) == pc[p] = "idle" /\ pc'[p] # "idle" /\ url'[p] = key

\* in this step call p returns what it fetched, for key
Stores(p, key) == pc[p] = "fetch" /\ pc'[p] = "done" /\ url[p] = key

\* C19, as written: a live entry is never replaced or removed, and an entry is
\* removed only by a lookup that finds it expired.
C19_LiveEntryNeverReplaced ==
    [][\A key \in DOMAIN cache :
          /\ LiveEntry(key) => key \in DOMAIN cache' /\ cache'[key] = cache[key]
          /\ key \notin DOMAIN cache'
             => now > cache[key].expiresAt /\ \E p \in Procs : Starts(p, key)]_vars

\* C19, amended: an entry is removed only by the lookup of a starting call that
\* finds it expired and is written only by a call that returns what it fetched,
\* with expiresAt = now + 24 h; when that write replaces a live entry, the
\* writing call had started no later than the replaced entry was stored (it was
\* in flight then), and the expiry does not move back.
C19_EntryLifecycle ==
    [][\A key \in DOMAIN cache \cup DOMAIN cache' :
          EntryChanges(key)
          => \/ /\ key \in DOMAIN cache /\ key \notin DOMAIN cache'
                /\ now > cache[key].expiresAt
                /\ \E p \in Procs : Starts(p, key)
             \/ /\ key \in DOMAIN cache'
                /\ \E p \in Procs :
                      /\ Stores(p, key)
                      /\ cache'[key] = [data |-> returned'[p], expiresAt |-> now + CACHE_TTL_MS]
                      /\ LiveEntry(key)
                         => /\ began[p].at <= stored[key].at
                            /\ cache'[key].expiresAt >= cache[key].expiresAt]_vars

\* an entry was replaced at the very instant of its expiry, while still live, by a
\* call that had started before it was stored
C19_Witness ==
    \E p, q \in Procs :
        /\ p # q /\ url[p] = url[q]
        /\ nStore[p] = 1 /\ nStore[q] = 1
        /\ src[p].ver = 1 /\ src[q].ver = 2
        /\ src[q].at = src[p].at + CACHE_TTL_MS
        /\ began[q].at <= src[p].at
        /\ cache[url[q]].expiresAt = src[q].at + CACHE_TTL_MS

\* C20, as written: cacheSet is called exactly when an attempt ends in a parsed
\* 2xx, with the URL as key and now + 24 h as expiry, and a call that has thrown
\* has left the Map as it found it: an entry that was there for its URL when it
\* started is still there.
C20_ThrowLeavesCacheUnchanged ==
    /\ [][\A p \in Procs :
             (pc[p] = "fetch" /\ pc'[p] # "fetch")
             => IF Outcome(LastOut(p)') = "ok"
                THEN /\ url[p] \in DOMAIN cache'
                     /\ cache'[url[p]].expiresAt = now + CACHE_TTL_MS
                ELSE cache' = cache]_vars
    /\ [](\A p \in Procs :
             (pc[p] = "failed" /\ began[p].ver > 0) => url[p] \in DOMAIN cache)

\* C20, amended: an attempt that ends in a parsed 2xx sets the entry of the call's
\* URL to that body with expiresAt = now + 24 h and changes no other entry; every
\* other end of an attempt, the end of a backoff and the end of a slot wait leave
\* the Map unchanged; the start of a call changes the Map at most by removing the
\* expired entry of its own URL; a call that has thrown has stored nothing, and a
\* call that starts without a live entry for its URL goes to the network.
C20_CacheWrittenOnSuccessOnly ==
    /\ [][\A p \in Procs :
             /\ (pc[p] = "fetch" /\ pc'[p] # "fetch")
                => IF Outcome(LastOut(p)') = "ok"
                   THEN /\ DOMAIN cache' = DOMAIN cache \cup {url[p]}
                        /\ cache'[url[p]] = [data |-> LastOut(p)'.data,
                                             expiresAt |-> now + CACHE_TTL_MS]
                        /\ \A k \in DOMAIN cache \ {url[p]} : cache'[k] = cache[k]
                        /\ nStore'[p] = nStore[p] + 1
                   ELSE cache' = cache /\ nStore'[p] = nStore[p]
             /\ (pc[p] \in {"sleep", "slot"} /\ pc'[p] # pc[p]) => cache' = cache
             /\ (pc[p] = "idle" /\ pc'[p] # "idle")
                => /\ \/ cache' = cache
                      \/ /\ url'[p] \in DOMAIN cache
                         /\ now > cache[url'[p]].expiresAt
                         /\ cache' = [k \in DOMAIN cache \ {url'[p]} |-> cache[k]]
                   /\ ~LiveEntry(url'[p]) => pc'[p] \in {"slot", "fetch"}]_vars
    /\ [](\A p \in Procs : pc[p] = "failed" => nStore[p] = 0)

\* a call found the entry of its URL expired, removed it, was answered 404 and has
\* thrown: the Map no longer holds the URL
C20_Witness ==
    \E p \in Procs :
        /\ pc[p] = "failed"
        /\ began[p].ver = 1
        /\ nFetch[p] = 1 /\ nStore[p] = 0
        /\ LastOut(p).status = 404
        /\ url[p] \notin DOMAIN cache

\* C21: a call made later than the expiresAt of the entry of its URL deletes that
\* entry in its lookup, returns nothing from it and goes on to waitForSlot and
\* fetch; when it returns, what it returns is what it fetched, stored by itself
\* as a new entry whose expiresAt is the time of that store + 24 h.
C21_TtlExpiry ==
    /\ [][\A p \in Procs :
            (/\ pc[p] = "idle" /\ pc'[p] # "idle"
             /\ url'[p] \in DOMAIN cache
             /\ now > cache[url'[p]].expiresAt)
            => /\ url'[p] \notin DOMAIN cache'
               /\ pc'[p] \in {"slot", "fetch"}
               /\ returned'[p] = NoValue
               /\ pc'[p] = "fetch" => nFetch'[p] = 1 /\ timestamps' = Push(Prune(timestamps, now), now)
               /\ pc'[p] = "slot" => wakeAt'[p] > now]_vars
    /\ [](\A p \in Procs :
            (pc[p] = "done" /\ began[p].ver > 0 /\ nFetch[p] > 0)
            => /\ returned[p] = outs[p][Len(outs[p])].data
               /\ src[p].ver > began[p].ver
               /\ src[p].at >= began[p].at
               /\ nStore[p] = 1
               /\ StoredOf(stored, url[p]) = src[p]
                  => /\ url[p] \in DOMAIN cache
                     /\ cache[url[p]] = [data |-> returned[p],
                                         expiresAt |-> src[p].at + CACHE_TTL_MS])

\* a call that found the entry of its URL expired has fetched again, and the
\* entry it stored is live with a fresh expiry
C21_Witness ==
    \E p \in Procs :
        /\ pc[p] = "done" /\ nFetch[p] = 1
        /\ began[p].ver = 1
        /\ src[p].ver = 2
        /\ src[p].at = began[p].at
        /\ began[p].at > CACHE_TTL_MS
        /\ cache[url[p]].expiresAt = now + CACHE_TTL_MS

\* C22: a call of waitForSlot first drops every timestamp t with now - t >=
\* windowMs; if fewer than maxRequests remain it appends now and returns without
\* suspending; otherwise it appends nothing and suspends for windowMs - (now -
\* oldest remaining) + 10 ms, and when that wait has ended it appends one
\* timestamp, the time of its resumption.  Nothing else changes the list.
C22_SlidingWindowStep ==
    [][LET remaining == SelectSeq(timestamps, LAMBDA x : ~(now - x >= windowMs))
       IN /\ issued' = issued + 1
             => IF Len(remaining) < maxRequests
                THEN /\ timestamps' = remaining \o <<now>>
                     /\ suspended' = suspended
                ELSE /\ timestamps' = remaining
                     /\ suspended' = suspended \o <<now + (windowMs - (now - remaining[1]) + 10)>>
          /\ Len(suspended') < Len(suspended)
             => /\ suspended' = Tail(suspended)
                /\ Head(suspended) <= now
                /\ timestamps' = timestamps \o <<now>>
          /\ (issued' = issued /\ suspended' = suspended) => timestamps' = timestamps]_vars

\* the sixth caller of a burst at time 0 was suspended for 1010 ms and recorded
\* its timestamp when it resumed, after the five of the burst had been dropped
C22_Witness ==
    /\ issued > maxRequests + 1
    /\ suspended = <<>>
    /\ timestamps # <<>>
    /\ timestamps[1] = windowMs + SlotMargin
    /\ Len(timestamps) > 1

\* the number of seconds a Retry-After header of decimal digits stands for
HeaderSeconds(text) == CHOOSE n \in 0..99 : Decimal(n) = text

\* C23: the delay slept after attempt index a is s * 1000 ms for a 429 whose
\* Retry-After header gives s seconds (0 ms for s = 0), 2000 * (a + 1) ms for a
\* 429 without that header, and 1000 * (a + 1) ms for a status >= 500.
C23_BackoffSchedule ==
    \A p \in Procs :
        \A i \in DOMAIN outs[p] :
            LET r == outs[p][i]
                a == i - 1
            IN /\ Outcome(r) \in {"429", "5xx"} => i \in DOMAIN sleeps[p]
               /\ (Outcome(r) = "429" /\ r.retryAfter.present /\ r.retryAfter.text # <<>>)
                  => sleeps[p][i] = HeaderSeconds(r.retryAfter.text) * 1000
               /\ (Outcome(r) = "429" /\ ~r.retryAfter.present)
                  => sleeps[p][i] = 2000 * (a + 1)
               /\ Outcome(r) = "5xx" => sleeps[p][i] = 1000 * (a + 1)

\* a 429 with Retry-After: 0, a 429 without the header and a 503, in this order
C23_Witness ==
    \E p \in Procs :
        /\ Outcomes(p) = <<"429", "429", "5xx">>
        /\ outs[p][1].retryAfter = Header(<<"0">>)
        /\ outs[p][2].retryAfter = NoHeader
        /\ sleeps[p] = <<0, 4000, 3000>>

\* C24: two calls whose defined parameters differ (with and without a cursor, or
\* with different values) have different cache keys, and a call served from the
\* cache returns the payload that a call with the same URL and the same defined
\* parameters fetched and stored.
C24_KeysSeparateRequests ==
    /\ \A p, q \in Procs :
          (pc[p] # "idle" /\ pc[q] # "idle" /\ began[p].params # began[q].params)
          => url[p] # url[q]
    /\ \A q \in Procs :
          (pc[q] = "done" /\ nFetch[q] = 0)
          => \E p \in Procs \ {q} :
                /\ pc[p] = "done" /\ nFetch[p] > 0
                /\ began[p].params = began[q].params
                /\ url[p] = url[q]
                /\ src[p] = src[q]
                /\ returned[q] = returned[p]

\* page 1 is cached, and the request for page 2 (the same path with a cursor) has
\* fetched and stored a payload of its own under its own key
C24_Witness ==
    \E p, q \in Procs :
        /\ p < q
        /\ pc[p] = "done" /\ pc[q] = "done"
        /\ began[p].params = <<Entry(Limit, Num(10))>>
        /\ began[q].params = <<Entry(Limit, Num(10)), Entry(Cursor, Str(<<"a", "b", "c">>))>>
        /\ began[q].at >= src[p].at
        /\ nFetch[q] = 1
        /\ LiveEntry(url[p]) /\ LiveEntry(url[q])
        /\ cache[url[p]].data = Envelope(<<1>>)
        /\ cache[url[q]].data = Envelope(<<2>>)
        /\ returned[q] = Envelope(<<2>>)

\* C25: when a call throws after three attempts, the error it throws belongs to
\* attempt index 2 (or is the one created after the loop): never an error that
\* was recorded for attempt 0 or 1.
C25_FinalErrorIsLastAttempt ==
    \A p \in Procs :
        (pc[p] = "failed" /\ Len(outs[p]) = MaxAttempts)
        => thrown[p].attempt >= MaxAttempts - 1

\* C26: once the third attempt has settled the call returns or throws without
\* another backoff sleep, so that a call sleeps at most twice.
C26_NoSleepAfterLastAttempt ==
    \A p \in Procs :
        /\ Len(sleeps[p]) <= MaxAttempts - 1
        /\ Len(outs[p]) = MaxAttempts => pc[p] \in {"done", "failed"}

\* C27: RateLimiter.timestamps is in non-decreasing order in every reachable
\* state, whatever the interleaving of the callers that entered at once and
\* those that resumed from a wait; its first element is then the oldest.
C27_TimestampsSorted ==
    /\ \A i, j \in DOMAIN timestamps : i < j => timestamps[i] <= timestamps[j]
    /\ \A i \in DOMAIN timestamps : timestamps[1] <= timestamps[i] /\ timestamps[i] <= now

\* a resumed caller has recorded its timestamp behind those of the burst that
\* made it wait, while another caller is still suspended
C27_Witness ==
    /\ suspended # <<>>
    /\ Len(timestamps) > maxRequests
    /\ timestamps[1] < timestamps[Len(timestamps)]
    /\ timestamps[Len(timestamps)] >= windowMs + SlotMargin

\* C28: fetchAllTimeOff ends, whatever successful responses it is given (the
\* runs that collect more than MaxTimeOffRows rows are left aside), and it
\* requests no page twice.
C28_TimeOffTerminates ==
    /\ <>(lPc = "end" \/ Len(lAll) > MaxTimeOffRows)
    /\ [](~lAgain)

\* C29: when fetchAllPeople has ended, what it returns is every row of the
\* upstream collection, in order, whatever the size of the collection and
\* whether or not the pages carry page.total_rows.
C29_AllPeopleReturned ==
    lPc = "end" => lAll = [i \in 1..lColl.size |-> i]

\* C30: the output of deel_get_org_chart holds every active person exactly once,
\* in a tree or in the standalone list, whatever the direct_manager relation.
C30_EveryoneRenderedOnce ==
    oOut.rendered
    => \A p \in DOMAIN oManager :
          Cardinality({i \in DOMAIN oOut.tree : oOut.tree[i].person = p})
          + Cardinality({i \in DOMAIN oOut.standalone : oOut.standalone[i] = p}) = 1

====
